---- MODULE Spec2Model ----
(***************************************************************************)
(* Logical clocks and FIFO broadcast of distributed_systems.core:          *)
(*   lamport_clock.py  (LamportClock, DistributedSystem)                   *)
(*   vector_clock.py   (VectorTimestamp, VectorClock, DistributedSystemVC) *)
(*   fifo_broadcast.py (FIFOBroadcast, DistributedSystemFIFO)              *)
(* One behaviour drives one of the classes; `system` says which one was    *)
(* constructed.  Python dicts are functions with a finite domain, lists    *)
(* are sequences, and every method call is one atomic action, except in    *)
(* the FIFODeliverSteps system, where deliver runs statement by statement. *)
(***************************************************************************)
EXTENDS Integers, Sequences, FiniteSets, TLC

VARIABLES
    system,            \* which object graph was constructed (see Init)
    processes,         \* coordinator registry: the keys of self.processes, in insertion order
    message_history,   \* process id -> self.message_history
    known_processes,   \* process id -> FIFOBroadcast.known_processes
    process_states,    \* process id -> FIFOBroadcast.process_states
    timestamp,         \* process id -> LamportClock.timestamp
    vector_timestamp,  \* process id -> VectorClock.vector_timestamp.timestamps
    network,           \* messages returned by a process-level send_message, not yet handed over
    events,            \* ghost: the send/receive events (threaded deliver calls) so far, in order
    passed,            \* ghost: process id -> sender -> sequence numbers handed to deliver
    frames,            \* thread -> the frame of its deliver call, where calls run step by step
    call               \* the last call: operation, target, argument, message, outcome

vars == <<system, processes, message_history, known_processes, process_states,
          timestamp, vector_timestamp, network, events, passed, frames, call>>

\* ------------------------------------------------------------------ bounds
ProcessIds == {"P1", "P2", "P3"}
\* message payloads: no operation reads the content of a message
Contents == {"a"}
\* largest sequence number of a message handed to FIFOBroadcast.deliver
MaxSeq == 3
\* calls to broadcast per FIFO process
MaxBroadcasts == 2
\* largest timestamp of a message handed to a LamportClock by a caller
MaxTimestamp == 5
\* calls on a clock object driven on its own
MaxCalls == 2
\* send and receive events among clocks exchanging messages
MaxEvents == 4
\* send_message or broadcast_message calls routed by a coordinator
MaxSends == 3
\* largest component of a vector timestamp handed to a VectorClock by a caller
MaxComponent == 1

\* max(a, b)
Max(a, b) == IF a >= b THEN a ELSE b

\* ------------------------------------------------------------- dictionaries
\* dict.get(k, default)
Get(d, k, default) == IF k \in DOMAIN d THEN d[k] ELSE default

\* d[k] = v
Put(d, k, v) == [x \in (DOMAIN d) \cup {k} |-> IF x = k THEN v ELSE d[x]]

\* d.pop(k)
Pop(d, k) == [x \in (DOMAIN d) \ {k} |-> d[x]]

\* the empty dict
EmptyDict == [x \in {} |-> 0]

\* the set of the elements of a list
Range(s) == {s[i] : i \in 1..Len(s)}

\* the outcome of no call yet
NoCall == [op |-> "init", self |-> "", arg |-> "", msg |-> "None", result |-> "ok"]

\* ============================================================ fifo_broadcast
FIFOMessage(from, seq, content) ==
    [from_process |-> from, sequence_number |-> seq, content |-> content]

\* ProcessState(sequence_number=0, next_expected=1, pending_messages={})
NewProcessState ==
    [sequence_number |-> 0, next_expected |-> 1, pending_messages |-> EmptyDict]

\* FIFOBroadcast.__init__: one ProcessState per known process
FIFOInitStates(known) == [pid \in Range(known) |-> NewProcessState]

\* a broadcast that stamps the message before it advances the counter
FIFOBroadcastStampedBefore(pid, states, history, content) ==
    LET seq == states[pid].sequence_number + 1
        message == FIFOMessage(pid, states[pid].sequence_number, content)
    IN  [states  |-> [states EXCEPT ![pid].sequence_number = seq],
         history |-> Append(history, message),
         message |-> message]

\* FIFOBroadcast.broadcast on the object (states, history) of process pid
FIFOBroadcastOp(pid, states, history, content) ==
    LET seq == states[pid].sequence_number + 1
        message == FIFOMessage(pid, seq, content)
    IN  [states  |-> [states EXCEPT ![pid].sequence_number = seq],
         history |-> Append(history, message),
         message |-> message]

\* a release step that is not repeated: `if` where the code has `while`
ReleaseOnce(state, history) ==
    IF state.next_expected \in DOMAIN state.pending_messages
    THEN [state |-> [state EXCEPT !.pending_messages = Pop(@, state.next_expected),
                                  !.next_expected = @ + 1],
          history |-> Append(history, state.pending_messages[state.next_expected])]
    ELSE [state |-> state, history |-> history]

\* a release loop that takes every pending number up to next_expected: `<=` for `==`
RECURSIVE ReleaseUpTo(_, _)
ReleaseUpTo(state, history) ==
    LET due == {n \in DOMAIN state.pending_messages : n <= state.next_expected}
    IN  IF due # {}
        THEN LET n == CHOOSE x \in due : \A y \in due : x <= y
             IN  ReleaseUpTo(
                    [state EXCEPT !.pending_messages = Pop(@, n),
                                  !.next_expected = Max(@, n + 1)],
                    Append(history, state.pending_messages[n]))
        ELSE [state |-> state, history |-> history]

\* the release loop of FIFOBroadcast.deliver
RECURSIVE ReleasePending(_, _)
ReleasePending(state, history) ==
    IF state.next_expected \in DOMAIN state.pending_messages
    THEN ReleasePending(
            [state EXCEPT !.pending_messages = Pop(@, state.next_expected),
                          !.next_expected = @ + 1],
            Append(history, state.pending_messages[state.next_expected]))
    ELSE [state |-> state, history |-> history]

\* FIFOBroadcast.deliver, given the sender's ProcessState and the history
FIFODeliverOp(state, history, message) ==
    ReleasePending(
        [state EXCEPT !.pending_messages = Put(@, message.sequence_number, message)],
        history)

\* ------------------------------------------------ a FIFOBroadcast on its own
\* FIFOBroadcast(ProcessId("P2"), known): the object the unit tests construct
InitFIFOBroadcast ==
    /\ system = "FIFOBroadcast"
    /\ processes = <<>>
    /\ \E known \in {<<"P1", "P2">>} :
          /\ known_processes = [p \in {"P2"} |-> known]
          /\ process_states = [p \in {"P2"} |-> FIFOInitStates(known)]
          /\ passed = [p \in {"P2"} |-> [s \in Range(known) |-> {}]]
    /\ message_history = [p \in {"P2"} |-> <<>>]
    /\ timestamp = EmptyDict
    /\ vector_timestamp = EmptyDict
    /\ network = {}
    /\ events = <<>>
    /\ call = NoCall
    /\ frames = EmptyDict

\* FIFOBroadcast(ProcessId("P2"), ["P1", "P2", "P3"]), an observer of two senders,
\* handed every message of a sender at most once
InitFIFOBroadcastOnce ==
    /\ system = "FIFOBroadcastOnce"
    /\ processes = <<>>
    /\ known_processes = [p \in {"P2"} |-> <<"P1", "P2", "P3">>]
    /\ process_states = [p \in {"P2"} |-> FIFOInitStates(<<"P1", "P2", "P3">>)]
    /\ passed = [p \in {"P2"} |-> [s \in ProcessIds |-> {}]]
    /\ message_history = [p \in {"P2"} |-> <<>>]
    /\ timestamp = EmptyDict
    /\ vector_timestamp = EmptyDict
    /\ network = {}
    /\ events = <<>>
    /\ call = NoCall
    /\ frames = EmptyDict

\* FIFOBroadcast(ProcessId("P2"), ["P1", "P2"]) whose callers also hand it its own
\* broadcasts
InitFIFOBroadcastSelf ==
    /\ system = "FIFOBroadcastSelf"
    /\ processes = <<>>
    /\ known_processes = [p \in {"P2"} |-> <<"P1", "P2">>]
    /\ process_states = [p \in {"P2"} |-> FIFOInitStates(<<"P1", "P2">>)]
    /\ passed = [p \in {"P2"} |-> [s \in {"P1", "P2"} |-> {}]]
    /\ message_history = [p \in {"P2"} |-> <<>>]
    /\ timestamp = EmptyDict
    /\ vector_timestamp = EmptyDict
    /\ network = {}
    /\ events = <<>>
    /\ call = NoCall
    /\ frames = EmptyDict

\* the ways a FIFOBroadcast object is driven on its own
FIFOUnitSystems == {"FIFOBroadcast", "FIFOBroadcastOnce", "FIFOBroadcastSelf"}

\* FIFOBroadcast.broadcast(content) on process p
Broadcast(p, content) ==
    /\ system \in FIFOUnitSystems
    /\ p \in DOMAIN process_states
    /\ process_states[p][p].sequence_number < MaxBroadcasts
    /\ LET r == FIFOBroadcastOp(p, process_states[p], message_history[p], content)
       IN  /\ process_states' = [process_states EXCEPT ![p] = r.states]
           /\ message_history' = [message_history EXCEPT ![p] = r.history]
           /\ call' = [op |-> "broadcast", self |-> p, arg |-> content,
                       msg |-> r.message, result |-> "ok"]
    /\ UNCHANGED <<system, frames, processes, known_processes, timestamp, vector_timestamp,
                   network, events, passed>>

\* a deliver that keeps one ProcessState for all senders:
\* `self.process_states[self.process_id]` for `self.process_states[sender]`
DeliverIntoOwnState(p, message) ==
    /\ system \in FIFOUnitSystems
    /\ p \in DOMAIN process_states
    /\ message.from_process # p
    /\ system = "FIFOBroadcastOnce" =>
          message.sequence_number \notin passed[p][message.from_process]
    /\ LET r == FIFODeliverOp(process_states[p][p], message_history[p], message)
       IN  /\ process_states' = [process_states EXCEPT ![p][p] = r.state]
           /\ message_history' = [message_history EXCEPT ![p] = r.history]
           /\ passed' = [passed EXCEPT ![p][message.from_process] =
                            @ \cup {message.sequence_number}]
           /\ call' = [op |-> "deliver", self |-> p, arg |-> message,
                       msg |-> "None", result |-> "ok"]
    /\ UNCHANGED <<system, frames, processes, known_processes, timestamp, vector_timestamp,
                   network, events>>

\* FIFOBroadcast.deliver(message) on process p; the message comes from another
\* process, or is a broadcast p has made where the callers hand a process its own
\* broadcasts back, and is new to p where every message is handed over at most once
Deliver(p, message) ==
    /\ system \in FIFOUnitSystems
    /\ p \in DOMAIN process_states
    /\ message.from_process = p =>
          /\ system = "FIFOBroadcastSelf"
          /\ message \in Range(message_history[p])
    /\ system = "FIFOBroadcastOnce" =>
          message.sequence_number \notin passed[p][message.from_process]
    /\ LET sender == message.from_process
       IN  IF sender \in DOMAIN process_states[p]
           THEN LET r == FIFODeliverOp(process_states[p][sender], message_history[p], message)
                IN  /\ process_states' = [process_states EXCEPT ![p][sender] = r.state]
                    /\ message_history' = [message_history EXCEPT ![p] = r.history]
                    /\ passed' = [passed EXCEPT ![p][sender] = @ \cup {message.sequence_number}]
                    /\ call' = [op |-> "deliver", self |-> p, arg |-> message,
                                msg |-> "None", result |-> "ok"]
           ELSE \* self.process_states[sender] raises KeyError
                /\ call' = [op |-> "deliver", self |-> p, arg |-> message,
                            msg |-> "None", result |-> "KeyError"]
                /\ UNCHANGED <<process_states, message_history, passed>>
    /\ UNCHANGED <<system, frames, processes, known_processes, timestamp, vector_timestamp,
                   network, events>>

\* the messages a caller hands to deliver
FIFOMessages ==
    {FIFOMessage(from, seq, content) :
        from \in ProcessIds, seq \in 1..MaxSeq, content \in Contents}

NextFIFOBroadcast ==
    \/ \E p \in ProcessIds, content \in Contents : Broadcast(p, content)
    \/ \E p \in ProcessIds, message \in FIFOMessages : Deliver(p, message)

SpecFIFOBroadcast == InitFIFOBroadcast /\ [][NextFIFOBroadcast]_vars

\* an observer of two senders, every message handed to it at most once
SpecFIFOBroadcastOnce == InitFIFOBroadcastOnce /\ [][NextFIFOBroadcast]_vars

\* a process that is also handed its own broadcasts
SpecFIFOBroadcastSelf == InitFIFOBroadcastSelf /\ [][NextFIFOBroadcast]_vars

\* ------------------------------------- deliver called from two threads at once
\* FIFOBroadcast(ProcessId("P2"), ["P1", "P2"]) whose deliver is called from two
\* threads with messages of P1.  A call advances one statement of deliver at a
\* time, so the statements of two calls interleave; a thread that runs its call
\* while the other thread is idle runs it as the atomic Deliver does.
Threads == {"t1", "t2"}

\* the observer and the sender of the threaded calls
Observer == "P2"
Sender == "P1"

\* a thread outside deliver
IdleFrame == [pc |-> "idle", message |-> "None", msg |-> "None", overlapped |-> FALSE]

InitFIFODeliverSteps ==
    /\ system = "FIFODeliverSteps"
    /\ processes = <<>>
    /\ known_processes = [p \in {Observer} |-> <<"P1", "P2">>]
    /\ process_states = [p \in {Observer} |-> FIFOInitStates(<<"P1", "P2">>)]
    /\ passed = [p \in {Observer} |-> [s \in {Sender} |-> {}]]
    /\ message_history = [p \in {Observer} |-> <<>>]
    /\ timestamp = EmptyDict
    /\ vector_timestamp = EmptyDict
    /\ network = {}
    /\ events = <<>>
    /\ call = NoCall
    /\ frames = [t \in Threads |-> IdleFrame]

\* a thread enters deliver(message): sender and state are bound (lines 67-68);
\* ghost: both calls are marked once two of them are in progress together
DeliverEnter(t, message) ==
    /\ system = "FIFODeliverSteps"
    /\ frames[t].pc = "idle"
    /\ message.from_process = Sender
    /\ Len(events) < MaxCalls
    /\ LET busy == {u \in Threads \ {t} : frames[u].pc # "idle"}
       IN  frames' = [u \in Threads |->
                         IF u = t
                         THEN [pc |-> "insert", message |-> message, msg |-> "None",
                               overlapped |-> busy # {}]
                         ELSE IF u \in busy THEN [frames[u] EXCEPT !.overlapped = TRUE]
                         ELSE frames[u]]
    /\ events' = Append(events, [process |-> Observer, kind |-> "deliver",
                                  message |-> message, time |-> Len(events) + 1])
    /\ passed' = [passed EXCEPT ![Observer][Sender] = @ \cup {message.sequence_number}]
    /\ UNCHANGED <<system, processes, known_processes, process_states, message_history,
                   timestamp, vector_timestamp, network, call>>

\* line 71: state.pending_messages["messages"][message.sequence_number] = message
DeliverInsert(t) ==
    /\ system = "FIFODeliverSteps"
    /\ frames[t].pc = "insert"
    /\ process_states' =
          [process_states EXCEPT ![Observer][Sender].pending_messages =
              Put(@, frames[t].message.sequence_number, frames[t].message)]
    /\ frames' = [frames EXCEPT ![t].pc = "test"]
    /\ UNCHANGED <<system, processes, known_processes, message_history, timestamp,
                   vector_timestamp, network, events, passed, call>>

\* line 74: the test of the while loop; the call returns when it fails
DeliverTest(t) ==
    /\ system = "FIFODeliverSteps"
    /\ frames[t].pc = "test"
    /\ LET state == process_states[Observer][Sender]
       IN  IF state.next_expected \in DOMAIN state.pending_messages
           THEN /\ frames' = [frames EXCEPT ![t].pc = "pop"]
                /\ UNCHANGED call
           ELSE /\ frames' = [frames EXCEPT ![t] = IdleFrame]
                /\ call' = [op |-> "deliver", self |-> Observer, arg |-> frames[t].message,
                            msg |-> "None", result |-> "ok"]
    /\ UNCHANGED <<system, processes, known_processes, process_states, message_history,
                   timestamp, vector_timestamp, network, events, passed>>

\* line 75: msg = pending.pop(state.next_expected); the key is read again here
\* and pop raises KeyError when another call has taken it since the test
DeliverPop(t) ==
    /\ system = "FIFODeliverSteps"
    /\ frames[t].pc = "pop"
    /\ LET state == process_states[Observer][Sender]
       IN  IF state.next_expected \in DOMAIN state.pending_messages
           THEN /\ frames' = [frames EXCEPT
                                 ![t].pc = "append",
                                 ![t].msg = state.pending_messages[state.next_expected]]
                /\ process_states' =
                      [process_states EXCEPT ![Observer][Sender].pending_messages =
                          Pop(@, state.next_expected)]
                /\ UNCHANGED call
           ELSE /\ frames' = [frames EXCEPT ![t] = IdleFrame]
                /\ call' = [op |-> "deliver", self |-> Observer, arg |-> frames[t].message,
                            msg |-> "None", result |-> "KeyError"]
                /\ UNCHANGED process_states
    /\ UNCHANGED <<system, processes, known_processes, message_history, timestamp,
                   vector_timestamp, network, events, passed>>

\* line 76: self.message_history.append(msg)
DeliverAppend(t) ==
    /\ system = "FIFODeliverSteps"
    /\ frames[t].pc = "append"
    /\ message_history' = [message_history EXCEPT ![Observer] = Append(@, frames[t].msg)]
    /\ frames' = [frames EXCEPT ![t].pc = "advance"]
    /\ UNCHANGED <<system, processes, known_processes, process_states, timestamp,
                   vector_timestamp, network, events, passed, call>>

\* a last statement that leaves next_expected as it was
DeliverAdvanceSkipped(t) ==
    /\ system = "FIFODeliverSteps"
    /\ frames[t].pc = "advance"
    /\ frames' = [frames EXCEPT ![t].pc = "test", ![t].msg = "None"]
    /\ UNCHANGED <<system, processes, known_processes, process_states, message_history,
                   timestamp, vector_timestamp, network, events, passed, call>>

\* line 77: state.next_expected = SequenceNumber(state.next_expected + 1)
DeliverAdvance(t) ==
    /\ system = "FIFODeliverSteps"
    /\ frames[t].pc = "advance"
    /\ process_states' =
          [process_states EXCEPT ![Observer][Sender].next_expected = @ + 1]
    /\ frames' = [frames EXCEPT ![t].pc = "test", ![t].msg = "None"]
    /\ UNCHANGED <<system, processes, known_processes, message_history, timestamp,
                   vector_timestamp, network, events, passed, call>>

NextFIFODeliverSteps ==
    \/ \E t \in Threads, message \in FIFOMessages : DeliverEnter(t, message)
    \/ \E t \in Threads : DeliverInsert(t)
    \/ \E t \in Threads : DeliverTest(t)
    \/ \E t \in Threads : DeliverPop(t)
    \/ \E t \in Threads : DeliverAppend(t)
    \/ \E t \in Threads : DeliverAdvance(t)

SpecFIFODeliverSteps == InitFIFODeliverSteps /\ [][NextFIFODeliverSteps]_vars

\* ------------------------------------------------------ DistributedSystemFIFO
\* DistributedSystemFIFO.__init__
InitDistributedSystemFIFO ==
    /\ system = "DistributedSystemFIFO"
    /\ processes = <<>>
    /\ known_processes = EmptyDict
    /\ process_states = EmptyDict
    /\ message_history = EmptyDict
    /\ timestamp = EmptyDict
    /\ vector_timestamp = EmptyDict
    /\ network = {}
    /\ events = <<>>
    /\ passed = EmptyDict
    /\ call = NoCall
    /\ frames = EmptyDict

\* DistributedSystemFIFO.create_process(process_id)
FIFOCreateProcess(process_id) ==
    /\ system = "DistributedSystemFIFO"
    /\ IF process_id \in Range(processes)
       THEN /\ call' = [op |-> "create_process", self |-> "system", arg |-> process_id,
                        msg |-> "None", result |-> "ValueError"]
            /\ UNCHANGED <<processes, known_processes, process_states, message_history>>
       ELSE LET known == Append(processes, process_id)
            IN  /\ processes' = known
                /\ known_processes' =
                      [p \in Range(known) |->
                          IF p = process_id THEN known
                          ELSE Append(known_processes[p], process_id)]
                /\ process_states' =
                      [p \in Range(known) |->
                          IF p = process_id THEN FIFOInitStates(known)
                          ELSE Put(process_states[p], process_id, NewProcessState)]
                /\ message_history' = Put(message_history, process_id, <<>>)
                /\ call' = [op |-> "create_process", self |-> "system", arg |-> process_id,
                            msg |-> "None", result |-> "ok"]
    /\ UNCHANGED <<system, frames, timestamp, vector_timestamp, network, events, passed>>

\* the loop of broadcast_message: deliver to every other process, in dict order
RECURSIVE FIFODeliverToAll(_, _, _, _)
FIFODeliverToAll(order, states, histories, message) ==
    IF order = <<>> THEN [states |-> states, histories |-> histories]
    ELSE LET pid == Head(order)
             from == message.from_process
         IN  IF pid # from
             THEN LET r == FIFODeliverOp(states[pid][from], histories[pid], message)
                  IN  FIFODeliverToAll(Tail(order),
                                       [states EXCEPT ![pid][from] = r.state],
                                       [histories EXCEPT ![pid] = r.history],
                                       message)
             ELSE FIFODeliverToAll(Tail(order), states, histories, message)

\* the broadcasts made so far by the processes of the registry
RECURSIVE BroadcastsSoFar(_)
BroadcastsSoFar(order) ==
    IF order = <<>> THEN 0
    ELSE process_states[Head(order)][Head(order)].sequence_number
             + BroadcastsSoFar(Tail(order))

\* DistributedSystemFIFO.broadcast_message(from_process, content)
FIFOBroadcastMessage(from_process, content) ==
    /\ system = "DistributedSystemFIFO"
    /\ IF from_process \notin Range(processes)
       THEN /\ call' = [op |-> "broadcast_message", self |-> "system",
                        arg |-> <<from_process, content>>,
                        msg |-> "None", result |-> "ValueError"]
            /\ UNCHANGED <<process_states, message_history>>
       ELSE /\ process_states[from_process][from_process].sequence_number < MaxBroadcasts
            /\ BroadcastsSoFar(processes) < MaxSends
            /\ LET b == FIFOBroadcastOp(from_process, process_states[from_process],
                                        message_history[from_process], content)
                   r == FIFODeliverToAll(
                            processes,
                            [process_states EXCEPT ![from_process] = b.states],
                            [message_history EXCEPT ![from_process] = b.history],
                            b.message)
               IN  /\ process_states' = r.states
                   /\ message_history' = r.histories
                   /\ call' = [op |-> "broadcast_message", self |-> "system",
                               arg |-> <<from_process, content>>,
                               msg |-> b.message, result |-> "ok"]
    /\ UNCHANGED <<system, frames, processes, known_processes, timestamp, vector_timestamp,
                   network, events, passed>>

NextDistributedSystemFIFO ==
    \/ \E process_id \in ProcessIds : FIFOCreateProcess(process_id)
    \/ \E from_process \in ProcessIds, content \in Contents :
          FIFOBroadcastMessage(from_process, content)

SpecDistributedSystemFIFO ==
    InitDistributedSystemFIFO /\ [][NextDistributedSystemFIFO]_vars

\* ============================================================= lamport_clock
Message(from, to, ts, content) ==
    [from_process |-> from, to_process |-> to, timestamp |-> ts, content |-> content]

\* one entry of the ghost event log: `time` is the process's clock right after the event
Event(p, kind, message, time) ==
    [process |-> p, kind |-> kind, message |-> message, time |-> time]

\* LamportClock.increment
LamportIncrement(local) == local + 1

\* an update that only takes the maximum: the `+ 1` is missing
LamportUpdateNoTick(local, received_timestamp) == Max(local, received_timestamp)

\* an update that ticks only when the message is ahead of the local clock
LamportUpdateTickWhenBehind(local, received_timestamp) ==
    IF received_timestamp > local THEN received_timestamp + 1 ELSE local

\* LamportClock.update
LamportUpdate(local, received_timestamp) == Max(local, received_timestamp) + 1

\* a send that stamps the message before it increments the clock
LamportSendStampedBefore(pid, local, history, to_process, content) ==
    LET t == LamportIncrement(local)
        message == Message(pid, to_process, local, content)
    IN  [timestamp |-> t, history |-> Append(history, message), message |-> message]

\* LamportClock.send_message on the object (local, history) of process pid
LamportSendOp(pid, local, history, to_process, content) ==
    LET t == LamportIncrement(local)
        message == Message(pid, to_process, t, content)
    IN  [timestamp |-> t, history |-> Append(history, message), message |-> message]

\* a receive that ticks the local clock without reading the message's timestamp
LamportReceiveTickOnly(local, history, message) ==
    [timestamp |-> LamportIncrement(local), history |-> Append(history, message)]

\* LamportClock.receive_message past its address check
LamportReceiveOp(local, history, message) ==
    [timestamp |-> LamportUpdate(local, message.timestamp),
     history |-> Append(history, message)]

\* the events the run may still perform
LamportBudget ==
    CASE system = "LamportClock" -> MaxCalls
      [] system = "LamportClocks" -> MaxEvents
      [] system = "DistributedSystem" -> 2 * MaxSends
      [] OTHER -> 0

\* ---------------------------------------------------- LamportClock objects
\* LamportClock("P2") on its own
InitLamportClock ==
    /\ system = "LamportClock"
    /\ processes = <<>>
    /\ timestamp = [p \in {"P2"} |-> 0]
    /\ message_history = [p \in {"P2"} |-> <<>>]
    /\ known_processes = EmptyDict
    /\ process_states = EmptyDict
    /\ vector_timestamp = EmptyDict
    /\ network = {}
    /\ events = <<>>
    /\ passed = EmptyDict
    /\ call = NoCall
    /\ frames = EmptyDict

\* LamportClock("P1"), LamportClock("P2"), LamportClock("P3") exchanging messages
InitLamportClocks ==
    /\ system = "LamportClocks"
    /\ processes = <<>>
    /\ timestamp = [p \in ProcessIds |-> 0]
    /\ message_history = [p \in ProcessIds |-> <<>>]
    /\ known_processes = EmptyDict
    /\ process_states = EmptyDict
    /\ vector_timestamp = EmptyDict
    /\ network = {}
    /\ events = <<>>
    /\ passed = EmptyDict
    /\ call = NoCall
    /\ frames = EmptyDict

\* LamportClock.increment() called on process p
Increment(p) ==
    /\ system = "LamportClock"
    /\ p \in DOMAIN timestamp
    /\ Len(events) < LamportBudget
    /\ timestamp' = [timestamp EXCEPT ![p] = LamportIncrement(@)]
    /\ events' = Append(events, Event(p, "increment", "None", timestamp'[p]))
    /\ call' = [op |-> "increment", self |-> p, arg |-> "None", msg |-> "None",
                result |-> "ok"]
    /\ UNCHANGED <<system, frames, processes, message_history, known_processes, process_states,
                   vector_timestamp, network, passed>>

\* LamportClock.update(received_timestamp) called on process p
Update(p, received_timestamp) ==
    /\ system = "LamportClock"
    /\ p \in DOMAIN timestamp
    /\ Len(events) < LamportBudget
    /\ timestamp' = [timestamp EXCEPT ![p] = LamportUpdate(@, received_timestamp)]
    /\ events' = Append(events, Event(p, "update", "None", timestamp'[p]))
    /\ call' = [op |-> "update", self |-> p, arg |-> received_timestamp, msg |-> "None",
                result |-> "ok"]
    /\ UNCHANGED <<system, frames, processes, message_history, known_processes, process_states,
                   vector_timestamp, network, passed>>

\* LamportClock.send_message(to_process, content) called on process p
SendMessage(p, to_process, content) ==
    /\ system \in {"LamportClock", "LamportClocks"}
    /\ p \in DOMAIN timestamp
    /\ Len(events) < LamportBudget
    /\ LET r == LamportSendOp(p, timestamp[p], message_history[p], to_process, content)
       IN  /\ timestamp' = [timestamp EXCEPT ![p] = r.timestamp]
           /\ message_history' = [message_history EXCEPT ![p] = r.history]
           /\ network' = network \cup {r.message}
           /\ events' = Append(events, Event(p, "send", r.message, r.timestamp))
           /\ call' = [op |-> "send_message", self |-> p, arg |-> <<to_process, content>>,
                       msg |-> r.message, result |-> "ok"]
    /\ UNCHANGED <<system, frames, processes, known_processes, process_states,
                   vector_timestamp, passed>>

\* the messages a caller hands to receive_message of the clock P2 driven on its
\* own: any timestamp when addressed to P2; the timestamp of a message addressed
\* to another process is never read, so one timestamp stands for all of them
LamportMessages ==
    {Message(from, "P2", ts, content) :
        from \in ProcessIds \ {"P2"}, ts \in 0..MaxTimestamp, content \in Contents}
    \cup {Message("P1", to, 1, content) :
            to \in ProcessIds \ {"P2"}, content \in Contents}

\* the messages receive_message of process p may be given: any message a caller
\* builds for a clock on its own; among clocks exchanging messages, the messages
\* sent so far to p
LamportReceivable(p) ==
    IF system = "LamportClock" THEN LamportMessages
    ELSE {message \in network : message.to_process = p}

\* a receive_message that does not look at the address of the message
ReceiveMessageUnchecked(p, message) ==
    /\ system \in {"LamportClock", "LamportClocks"}
    /\ p \in DOMAIN timestamp
    /\ message \in LamportReceivable(p)
    /\ Len(events) < LamportBudget
    /\ LET r == LamportReceiveOp(timestamp[p], message_history[p], message)
       IN  /\ timestamp' = [timestamp EXCEPT ![p] = r.timestamp]
           /\ message_history' = [message_history EXCEPT ![p] = r.history]
           /\ events' = Append(events, Event(p, "receive", message, r.timestamp))
           /\ call' = [op |-> "receive_message", self |-> p, arg |-> message,
                       msg |-> "None", result |-> "ok"]
    /\ UNCHANGED <<system, frames, processes, known_processes, process_states,
                   vector_timestamp, network, passed>>

\* LamportClock.receive_message(message) called on process p
ReceiveMessage(p, message) ==
    /\ system \in {"LamportClock", "LamportClocks"}
    /\ p \in DOMAIN timestamp
    /\ message \in LamportReceivable(p)
    /\ Len(events) < LamportBudget
    /\ IF message.to_process # p
       THEN /\ call' = [op |-> "receive_message", self |-> p, arg |-> message,
                        msg |-> "None", result |-> "ValueError"]
            /\ UNCHANGED <<timestamp, message_history, events>>
       ELSE LET r == LamportReceiveOp(timestamp[p], message_history[p], message)
            IN  /\ timestamp' = [timestamp EXCEPT ![p] = r.timestamp]
                /\ message_history' = [message_history EXCEPT ![p] = r.history]
                /\ events' = Append(events, Event(p, "receive", message, r.timestamp))
                /\ call' = [op |-> "receive_message", self |-> p, arg |-> message,
                            msg |-> "None", result |-> "ok"]
    /\ UNCHANGED <<system, frames, processes, known_processes, process_states,
                   vector_timestamp, network, passed>>

NextLamportClock ==
    \/ \E p \in ProcessIds : Increment(p)
    \/ \E p \in ProcessIds, received_timestamp \in 0..MaxTimestamp :
          Update(p, received_timestamp)
    \/ \E p \in ProcessIds, to_process \in ProcessIds, content \in Contents :
          SendMessage(p, to_process, content)
    \/ \E p \in ProcessIds : \E message \in LamportReceivable(p) :
          ReceiveMessage(p, message)

\* a clock on its own, every method called with arguments the caller builds
SpecLamportClock == InitLamportClock /\ [][NextLamportClock]_vars

NextLamportClocks ==
    \/ \E p \in ProcessIds, to_process \in ProcessIds, content \in Contents :
          SendMessage(p, to_process, content)
    \/ \E p \in ProcessIds : \E message \in LamportReceivable(p) :
          ReceiveMessage(p, message)

\* clocks exchanging the messages they send, each received by its addressee any
\* number of times
SpecLamportClocks == InitLamportClocks /\ [][NextLamportClocks]_vars

\* ----------------------------------------------------------- DistributedSystem
\* DistributedSystem.__init__
InitDistributedSystem ==
    /\ system = "DistributedSystem"
    /\ processes = <<>>
    /\ timestamp = EmptyDict
    /\ message_history = EmptyDict
    /\ known_processes = EmptyDict
    /\ process_states = EmptyDict
    /\ vector_timestamp = EmptyDict
    /\ network = {}
    /\ events = <<>>
    /\ passed = EmptyDict
    /\ call = NoCall
    /\ frames = EmptyDict

\* a create_process that assigns a fresh clock without looking at the registry
CreateProcessOverwrite(process_id) ==
    /\ system = "DistributedSystem"
    /\ processes' = IF process_id \in Range(processes) THEN processes
                    ELSE Append(processes, process_id)
    /\ timestamp' = Put(timestamp, process_id, 0)
    /\ message_history' = Put(message_history, process_id, <<>>)
    /\ call' = [op |-> "create_process", self |-> "system", arg |-> process_id,
                msg |-> "None", result |-> "ok"]
    /\ UNCHANGED <<system, frames, known_processes, process_states, vector_timestamp,
                   network, events, passed>>

\* DistributedSystem.create_process(process_id)
CreateProcess(process_id) ==
    /\ system = "DistributedSystem"
    /\ IF process_id \in Range(processes)
       THEN /\ call' = [op |-> "create_process", self |-> "system", arg |-> process_id,
                        msg |-> "None", result |-> "ValueError"]
            /\ UNCHANGED <<processes, timestamp, message_history>>
       ELSE /\ processes' = Append(processes, process_id)
            /\ timestamp' = Put(timestamp, process_id, 0)
            /\ message_history' = Put(message_history, process_id, <<>>)
            /\ call' = [op |-> "create_process", self |-> "system", arg |-> process_id,
                        msg |-> "None", result |-> "ok"]
    /\ UNCHANGED <<system, frames, known_processes, process_states, vector_timestamp,
                   network, events, passed>>

\* a send_message that looks up the recipient only after the sender has sent
RouteMessageSendFirst(from_process, to_process, content) ==
    /\ system = "DistributedSystem"
    /\ from_process \in Range(processes)
    /\ to_process \notin Range(processes)
    /\ Len(events) < LamportBudget
    /\ LET s == LamportSendOp(from_process, timestamp[from_process],
                              message_history[from_process], to_process, content)
       IN  /\ timestamp' = [timestamp EXCEPT ![from_process] = s.timestamp]
           /\ message_history' = [message_history EXCEPT ![from_process] = s.history]
           /\ events' = Append(events, Event(from_process, "send", s.message,
                                             s.timestamp))
           /\ call' = [op |-> "send_message", self |-> "system",
                       arg |-> <<from_process, to_process, content>>,
                       msg |-> "None", result |-> "ValueError"]
    /\ UNCHANGED <<system, frames, processes, known_processes, process_states,
                   vector_timestamp, network, passed>>

\* DistributedSystem.send_message(from_process, to_process, content)
RouteMessage(from_process, to_process, content) ==
    /\ system = "DistributedSystem"
    /\ IF from_process \notin Range(processes) \/ to_process \notin Range(processes)
       THEN /\ call' = [op |-> "send_message", self |-> "system",
                        arg |-> <<from_process, to_process, content>>,
                        msg |-> "None", result |-> "ValueError"]
            /\ UNCHANGED <<timestamp, message_history, events>>
       ELSE /\ Len(events) < LamportBudget
            /\ LET s == LamportSendOp(from_process, timestamp[from_process],
                                      message_history[from_process], to_process, content)
                   sent_ts == [timestamp EXCEPT ![from_process] = s.timestamp]
                   sent_mh == [message_history EXCEPT ![from_process] = s.history]
                   r == LamportReceiveOp(sent_ts[to_process], sent_mh[to_process], s.message)
               IN  /\ timestamp' = [sent_ts EXCEPT ![to_process] = r.timestamp]
                   /\ message_history' = [sent_mh EXCEPT ![to_process] = r.history]
                   /\ events' = events \o
                         <<Event(from_process, "send", s.message, s.timestamp),
                           Event(to_process, "receive", s.message, r.timestamp)>>
                   /\ call' = [op |-> "send_message", self |-> "system",
                               arg |-> <<from_process, to_process, content>>,
                               msg |-> s.message, result |-> "ok"]
    /\ UNCHANGED <<system, frames, processes, known_processes, process_states,
                   vector_timestamp, network, passed>>

NextDistributedSystem ==
    \/ \E process_id \in ProcessIds : CreateProcess(process_id)
    \/ \E from_process \in ProcessIds, to_process \in ProcessIds, content \in Contents :
          RouteMessage(from_process, to_process, content)

SpecDistributedSystem == InitDistributedSystem /\ [][NextDistributedSystem]_vars

\* ============================================================== vector_clock
VectorMessage(from, to, vt, content) ==
    [from_process |-> from, to_process |-> to, vector_timestamp |-> vt,
     content |-> content]

\* VectorTimestamp.__eq__, generated by @dataclass: equality of the two dicts
VectorEq(a, b) == a = b

\* VectorTimestamp.__ge__
VectorGe(a, b) ==
    \A k \in (DOMAIN a) \cup (DOMAIN b) : Get(a, k, 0) >= Get(b, k, 0)

\* a comparison that looks only at the keys of the other vector
VectorLeOtherKeys(a, b) ==
    \A k \in DOMAIN b : Get(a, k, 0) <= b[k]

\* VectorTimestamp.__le__
VectorLe(a, b) ==
    \A k \in (DOMAIN a) \cup (DOMAIN b) : Get(a, k, 0) <= Get(b, k, 0)

\* a concurrency test that looks in one direction only
ConcurrentNotLe(a, b) == ~VectorLe(a, b)

\* VectorTimestamp.concurrent_with
ConcurrentWith(a, b) == ~(VectorLe(a, b) \/ VectorLe(b, a))

\* a merge over the keys self already has
VectorMergeOwnKeys(a, b) ==
    [k \in DOMAIN a |-> Max(a[k], Get(b, k, 0))]

\* VectorTimestamp.merge: the value of self.timestamps afterwards
VectorMerge(a, b) ==
    [k \in (DOMAIN a) \cup (DOMAIN b) |-> Max(Get(a, k, 0), Get(b, k, 0))]

\* VectorClock.__init__: {p: 0 for p in known_processes}
VectorInit(known) == [p \in Range(known) |-> 0]

\* VectorClock.increment (the process's own key is in its vector)
VectorIncrement(pid, local) == [local EXCEPT ![pid] = @ + 1]

\* a merge loop that adds the received component to the local one: `+` for max
VectorMergeSum(local, received) ==
    [k \in (DOMAIN local) \cup (DOMAIN received) |->
        IF k \in DOMAIN received THEN Get(local, k, 0) + received[k]
        ELSE local[k]]

\* the merge loop of VectorClock.update: every item of the received vector is
\* folded into the local one
VectorMergeReceived(local, received) ==
    [k \in (DOMAIN local) \cup (DOMAIN received) |->
        IF k \in DOMAIN received THEN Max(Get(local, k, 0), received[k])
        ELSE local[k]]

\* an update that increments before it merges
VectorUpdateIncrementFirst(pid, local, received) ==
    VectorMergeReceived(VectorIncrement(pid, local), received)

\* VectorClock.update: merge, then increment
VectorUpdate(pid, local, received) ==
    VectorIncrement(pid, VectorMergeReceived(local, received))

\* message.vector_timestamp.timestamps: the dict a message's timestamp holds. A
\* message built from a copy holds its own dict; were the timestamp built around
\* a clock's dict itself, [ref |-> pid], it would read that clock's current vector
Timestamps(vt, vectors) ==
    IF DOMAIN vt = {"ref"} THEN vectors[vt.ref] ELSE vt

\* a send whose message shares the sender's dict instead of copying it
VectorSendAliased(pid, local, history, to_process, content) ==
    LET message == VectorMessage(pid, to_process, [ref |-> pid], content)
    IN  [vector |-> VectorIncrement(pid, local),
         history |-> Append(history, message), message |-> message]

\* a send that stamps the message with the vector it had before the increment
VectorSendStampedBefore(pid, local, history, to_process, content) ==
    LET message == VectorMessage(pid, to_process, local, content)
    IN  [vector |-> VectorIncrement(pid, local),
         history |-> Append(history, message), message |-> message]

\* VectorClock.send_message on the object (local, history) of process pid; the
\* message carries timestamps.copy(), a dict of its own with the vector's value
VectorSendOp(pid, local, history, to_process, content) ==
    LET vt == VectorIncrement(pid, local)
        message == VectorMessage(pid, to_process, vt, content)
    IN  [vector |-> vt, history |-> Append(history, message), message |-> message]

\* a receive that merges the message's vector and does not count itself
VectorReceiveMergeOnly(pid, local, history, message, vectors) ==
    [vector |-> VectorMergeReceived(local,
                                    Timestamps(message.vector_timestamp, vectors)),
     history |-> Append(history, message)]

\* VectorClock.receive_message past its address check, on the object (local,
\* history) of process pid; vectors are the clocks' dicts at the time of the call
VectorReceiveOp(pid, local, history, message, vectors) ==
    [vector |-> VectorUpdate(pid, local,
                             Timestamps(message.vector_timestamp, vectors)),
     history |-> Append(history, message)]

\* the events the run may still perform
VectorBudget ==
    CASE system = "VectorClock" -> MaxCalls
      [] system = "VectorClocks" -> MaxEvents
      [] system = "DistributedSystemVC" -> MaxEvents
      [] OTHER -> 0

\* ------------------------------------------------- two VectorTimestamp objects
\* the vector timestamps a caller builds: any key set, components 0..MaxComponent
VectorTimestamps ==
    UNION {[S -> 0..MaxComponent] : S \in SUBSET ProcessIds}

\* a = VectorTimestamp(...), b = VectorTimestamp(...): any two vectors a caller builds
InitVectorTimestamp ==
    /\ system = "VectorTimestamp"
    /\ processes = <<>>
    /\ vector_timestamp \in [{"a", "b"} -> VectorTimestamps]
    /\ message_history = EmptyDict
    /\ known_processes = EmptyDict
    /\ process_states = EmptyDict
    /\ timestamp = EmptyDict
    /\ network = {}
    /\ events = <<>>
    /\ passed = EmptyDict
    /\ call = NoCall
    /\ frames = EmptyDict

\* x <= y
VTLe(x, y) ==
    /\ system = "VectorTimestamp"
    /\ call' = [op |-> "__le__", self |-> x, arg |-> y, msg |-> "None",
                result |-> VectorLe(vector_timestamp[x], vector_timestamp[y])]
    /\ UNCHANGED <<system, frames, processes, message_history, known_processes, process_states,
                   timestamp, vector_timestamp, network, events, passed>>

\* x >= y
VTGe(x, y) ==
    /\ system = "VectorTimestamp"
    /\ call' = [op |-> "__ge__", self |-> x, arg |-> y, msg |-> "None",
                result |-> VectorGe(vector_timestamp[x], vector_timestamp[y])]
    /\ UNCHANGED <<system, frames, processes, message_history, known_processes, process_states,
                   timestamp, vector_timestamp, network, events, passed>>

\* x == y
VTEq(x, y) ==
    /\ system = "VectorTimestamp"
    /\ call' = [op |-> "__eq__", self |-> x, arg |-> y, msg |-> "None",
                result |-> VectorEq(vector_timestamp[x], vector_timestamp[y])]
    /\ UNCHANGED <<system, frames, processes, message_history, known_processes, process_states,
                   timestamp, vector_timestamp, network, events, passed>>

\* x.concurrent_with(y)
VTConcurrentWith(x, y) ==
    /\ system = "VectorTimestamp"
    /\ call' = [op |-> "concurrent_with", self |-> x, arg |-> y, msg |-> "None",
                result |-> ConcurrentWith(vector_timestamp[x], vector_timestamp[y])]
    /\ UNCHANGED <<system, frames, processes, message_history, known_processes, process_states,
                   timestamp, vector_timestamp, network, events, passed>>

\* x.merge(y): writes x.timestamps, returns None
VTMerge(x, y) ==
    /\ system = "VectorTimestamp"
    /\ vector_timestamp' =
          [vector_timestamp EXCEPT ![x] = VectorMerge(vector_timestamp[x],
                                                      vector_timestamp[y])]
    /\ call' = [op |-> "merge", self |-> x, arg |-> y, msg |-> "None", result |-> "None"]
    /\ UNCHANGED <<system, frames, processes, message_history, known_processes, process_states,
                   timestamp, network, events, passed>>

NextVectorTimestamp ==
    \/ \E x \in {"a", "b"}, y \in {"a", "b"} : VTLe(x, y)
    \/ \E x \in {"a", "b"}, y \in {"a", "b"} : VTGe(x, y)
    \/ \E x \in {"a", "b"}, y \in {"a", "b"} : VTEq(x, y)
    \/ \E x \in {"a", "b"}, y \in {"a", "b"} : VTConcurrentWith(x, y)
    \/ \E x \in {"a", "b"}, y \in {"a", "b"} : VTMerge(x, y)

\* the comparisons and merges of two vector timestamps, in any order
SpecVectorTimestamp == InitVectorTimestamp /\ [][NextVectorTimestamp]_vars

\* ------------------------------------------------------ a VectorClock on its own
\* VectorClock("P2", known): the object the unit tests construct
InitVectorClock ==
    /\ system = "VectorClock"
    /\ processes = <<>>
    /\ \E known \in {<<"P1", "P2">>, <<"P1", "P2", "P3">>} :
          vector_timestamp = [p \in {"P2"} |-> VectorInit(known)]
    /\ message_history = [p \in {"P2"} |-> <<>>]
    /\ known_processes = EmptyDict
    /\ process_states = EmptyDict
    /\ timestamp = EmptyDict
    /\ network = {}
    /\ events = <<>>
    /\ passed = EmptyDict
    /\ call = NoCall
    /\ frames = EmptyDict

\* VectorClock(p, known) for every process id, with known either every id or only
\* p itself: the clocks of processes that exchange the messages they send
InitVectorClocks ==
    /\ system = "VectorClocks"
    /\ processes = <<>>
    /\ \/ vector_timestamp = [p \in ProcessIds |-> VectorInit(<<"P1", "P2", "P3">>)]
       \/ vector_timestamp = [p \in ProcessIds |-> VectorInit(<<p>>)]
    /\ message_history = [p \in ProcessIds |-> <<>>]
    /\ known_processes = EmptyDict
    /\ process_states = EmptyDict
    /\ timestamp = EmptyDict
    /\ network = {}
    /\ events = <<>>
    /\ passed = EmptyDict
    /\ call = NoCall
    /\ frames = EmptyDict

\* VectorClock.increment() called on process p
VCIncrement(p) ==
    /\ system = "VectorClock"
    /\ p \in DOMAIN vector_timestamp
    /\ Len(events) < VectorBudget
    /\ vector_timestamp' = [vector_timestamp EXCEPT ![p] = VectorIncrement(p, @)]
    /\ events' = Append(events, Event(p, "increment", "None", vector_timestamp'[p]))
    /\ call' = [op |-> "increment", self |-> p, arg |-> "None", msg |-> "None",
                result |-> "ok"]
    /\ UNCHANGED <<system, frames, processes, message_history, known_processes, process_states,
                   timestamp, network, passed>>

\* VectorClock.send_message(to_process, content) called on process p
VCSendMessage(p, to_process, content) ==
    /\ system \in {"VectorClock", "VectorClocks"}
    /\ p \in DOMAIN vector_timestamp
    /\ Len(events) < VectorBudget
    /\ LET r == VectorSendOp(p, vector_timestamp[p], message_history[p],
                             to_process, content)
       IN  /\ vector_timestamp' = [vector_timestamp EXCEPT ![p] = r.vector]
           /\ message_history' = [message_history EXCEPT ![p] = r.history]
           /\ network' = network \cup {r.message}
           /\ events' = Append(events, Event(p, "send", r.message, r.vector))
           /\ call' = [op |-> "send_message", self |-> p, arg |-> <<to_process, content>>,
                       msg |-> r.message, result |-> "ok"]
    /\ UNCHANGED <<system, frames, processes, known_processes, process_states, timestamp, passed>>

\* the messages a caller hands to receive_message of the clock P2 driven on its
\* own. They come from P1, whose vector always holds P1's own key; any such
\* vector when addressed to P2; the vector of a message addressed to another
\* process is never read, so one vector stands for all of them
VectorMessages ==
    {VectorMessage("P1", "P2", vt, content) :
        vt \in {v \in VectorTimestamps : "P1" \in DOMAIN v}, content \in Contents}
    \cup {VectorMessage("P1", to, [p \in ProcessIds |-> IF p = "P1" THEN 1 ELSE 0],
                        content) :
            to \in ProcessIds \ {"P2"}, content \in Contents}

\* the messages receive_message of process p may be given: any message a caller
\* builds for a clock on its own; among clocks exchanging messages, the messages
\* sent so far to p that p has not received yet
VectorReceivable(p) ==
    IF system = "VectorClock" THEN VectorMessages
    ELSE {message \in network :
            /\ message.to_process = p
            /\ \A i \in 1..Len(events) :
                  ~(events[i].kind = "receive" /\ events[i].message = message)}

\* VectorClock.receive_message(message) called on process p
VCReceiveMessage(p, message) ==
    /\ system \in {"VectorClock", "VectorClocks"}
    /\ p \in DOMAIN vector_timestamp
    /\ message \in VectorReceivable(p)
    /\ Len(events) < VectorBudget
    /\ IF message.to_process # p
       THEN /\ call' = [op |-> "receive_message", self |-> p, arg |-> message,
                        msg |-> "None", result |-> "ValueError"]
            /\ UNCHANGED <<vector_timestamp, message_history, events>>
       ELSE LET r == VectorReceiveOp(p, vector_timestamp[p], message_history[p], message,
                                     vector_timestamp)
            IN  /\ vector_timestamp' = [vector_timestamp EXCEPT ![p] = r.vector]
                /\ message_history' = [message_history EXCEPT ![p] = r.history]
                /\ events' = Append(events, Event(p, "receive", message, r.vector))
                /\ call' = [op |-> "receive_message", self |-> p, arg |-> message,
                            msg |-> "None", result |-> "ok"]
    /\ UNCHANGED <<system, frames, processes, known_processes, process_states, timestamp,
                   network, passed>>

NextVectorClock ==
    \/ \E p \in ProcessIds : VCIncrement(p)
    \/ \E p \in ProcessIds, to_process \in ProcessIds, content \in Contents :
          VCSendMessage(p, to_process, content)
    \/ \E p \in ProcessIds : \E message \in VectorReceivable(p) :
          VCReceiveMessage(p, message)

\* a vector clock on its own, every method called with arguments the caller builds
SpecVectorClock == InitVectorClock /\ [][NextVectorClock]_vars

NextVectorClocks ==
    \/ \E p \in ProcessIds, to_process \in ProcessIds, content \in Contents :
          VCSendMessage(p, to_process, content)
    \/ \E p \in ProcessIds : \E message \in VectorReceivable(p) :
          VCReceiveMessage(p, message)

\* vector clocks exchanging the messages they send, each received by its
\* addressee at most once, possibly long after it was sent
SpecVectorClocks == InitVectorClocks /\ [][NextVectorClocks]_vars

\* --------------------------------------------------------- DistributedSystemVC
\* DistributedSystemVC.__init__
InitDistributedSystemVC ==
    /\ system = "DistributedSystemVC"
    /\ processes = <<>>
    /\ vector_timestamp = EmptyDict
    /\ message_history = EmptyDict
    /\ known_processes = EmptyDict
    /\ process_states = EmptyDict
    /\ timestamp = EmptyDict
    /\ network = {}
    /\ events = <<>>
    /\ passed = EmptyDict
    /\ call = NoCall
    /\ frames = EmptyDict

\* a registration that rebuilds every vector at the new dimension
VectorRegisterRebuilt(vectors, order, process_id) ==
    [p \in Range(Append(order, process_id)) |-> VectorInit(Append(order, process_id))]

\* a registration that builds the new clock and leaves the others as they are
VectorRegisterNewOnly(vectors, order, process_id) ==
    LET known == Append(order, process_id)
    IN  [p \in Range(known) |->
            IF p = process_id THEN VectorInit(known) ELSE vectors[p]]

\* the vectors after DistributedSystemVC.create_process registered process_id:
\* the new clock knows every registered id, and every clock gets process_id -> 0
VectorRegister(vectors, order, process_id) ==
    LET known == Append(order, process_id)
    IN  [p \in Range(known) |->
            Put(IF p = process_id THEN VectorInit(known) ELSE vectors[p],
                process_id, 0)]

\* DistributedSystemVC.create_process(process_id)
VCCreateProcess(process_id) ==
    /\ system = "DistributedSystemVC"
    /\ IF process_id \in Range(processes)
       THEN /\ call' = [op |-> "create_process", self |-> "system", arg |-> process_id,
                        msg |-> "None", result |-> "ValueError"]
            /\ UNCHANGED <<processes, vector_timestamp, message_history>>
       ELSE /\ processes' = Append(processes, process_id)
            /\ vector_timestamp' = VectorRegister(vector_timestamp, processes, process_id)
            /\ message_history' = Put(message_history, process_id, <<>>)
            /\ call' = [op |-> "create_process", self |-> "system", arg |-> process_id,
                        msg |-> "None", result |-> "ok"]
    /\ UNCHANGED <<system, frames, known_processes, process_states, timestamp,
                   network, events, passed>>

\* DistributedSystemVC.send_message(from_process, to_process, content)
VCRouteMessage(from_process, to_process, content) ==
    /\ system = "DistributedSystemVC"
    /\ IF from_process \notin Range(processes) \/ to_process \notin Range(processes)
       THEN /\ call' = [op |-> "send_message", self |-> "system",
                        arg |-> <<from_process, to_process, content>>,
                        msg |-> "None", result |-> "ValueError"]
            /\ UNCHANGED <<vector_timestamp, message_history, events>>
       ELSE /\ Len(events) < VectorBudget
            /\ LET s == VectorSendOp(from_process, vector_timestamp[from_process],
                                     message_history[from_process], to_process, content)
                   sent_vt == [vector_timestamp EXCEPT ![from_process] = s.vector]
                   sent_mh == [message_history EXCEPT ![from_process] = s.history]
                   r == VectorReceiveOp(to_process, sent_vt[to_process],
                                        sent_mh[to_process], s.message, sent_vt)
               IN  /\ vector_timestamp' = [sent_vt EXCEPT ![to_process] = r.vector]
                   /\ message_history' = [sent_mh EXCEPT ![to_process] = r.history]
                   /\ events' = events \o
                         <<Event(from_process, "send", s.message, s.vector),
                           Event(to_process, "receive", s.message, r.vector)>>
                   /\ call' = [op |-> "send_message", self |-> "system",
                               arg |-> <<from_process, to_process, content>>,
                               msg |-> s.message, result |-> "ok"]
    /\ UNCHANGED <<system, frames, processes, known_processes, process_states, timestamp,
                   network, passed>>

NextDistributedSystemVC ==
    \/ \E process_id \in ProcessIds : VCCreateProcess(process_id)
    \/ \E from_process \in ProcessIds, to_process \in ProcessIds, content \in Contents :
          VCRouteMessage(from_process, to_process, content)

SpecDistributedSystemVC == InitDistributedSystemVC /\ [][NextDistributedSystemVC]_vars

\* ================================================== a clock object on its own
\* the state after constructing LamportClock("P2") or VectorClock("P2", known)
InitClock ==
    \/ InitLamportClock
    \/ InitVectorClock

\* the methods of the clock that was constructed
NextClock ==
    \/ system = "LamportClock" /\ NextLamportClock
    \/ system = "VectorClock" /\ NextVectorClock

SpecClock == InitClock /\ [][NextClock]_vars

\* =============================================================== coordinators
\* the state after constructing one of the three coordinators
InitCoordinators ==
    \/ InitDistributedSystem
    \/ InitDistributedSystemVC
    \/ InitDistributedSystemFIFO

\* the operations of the coordinator that was constructed
NextCoordinators ==
    \/ system = "DistributedSystem" /\ NextDistributedSystem
    \/ system = "DistributedSystemVC" /\ NextDistributedSystemVC
    \/ system = "DistributedSystemFIFO" /\ NextDistributedSystemFIFO

SpecCoordinators == InitCoordinators /\ [][NextCoordinators]_vars

\* ============================================= all processes and coordinators
\* the state after constructing any one of the process or coordinator classes
Init ==
    \/ InitFIFOBroadcast
    \/ InitDistributedSystemFIFO
    \/ InitLamportClock
    \/ InitLamportClocks
    \/ InitDistributedSystem
    \/ InitVectorClock
    \/ InitVectorClocks
    \/ InitDistributedSystemVC

\* the operations of the class that was constructed
Next ==
    \/ system = "FIFOBroadcast" /\ NextFIFOBroadcast
    \/ system = "DistributedSystemFIFO" /\ NextDistributedSystemFIFO
    \/ system \in {"LamportClock", "LamportClocks"} /\ NextLamportClock
    \/ system = "DistributedSystem" /\ NextDistributedSystem
    \/ system \in {"VectorClock", "VectorClocks"} /\ NextVectorClock
    \/ system = "DistributedSystemVC" /\ NextDistributedSystemVC

Spec == Init /\ [][Next]_vars

\* ==================================================================== claims
\* [msg for msg in s if msg.from_process == from]
RECURSIVE SelectFrom(_, _)
SelectFrom(s, from) ==
    IF s = <<>> THEN <<>>
    ELSE IF Head(s).from_process = from
         THEN <<Head(s)>> \o SelectFrom(Tail(s), from)
         ELSE SelectFrom(Tail(s), from)

\* the sequence numbers of the messages of history that `from` sent, in order
SequenceNumbersFrom(history, from) ==
    LET sel == SelectFrom(history, from)
    IN  [i \in 1..Len(sel) |-> sel[i].sequence_number]

\* the largest k with every one of 1..k in S
ContiguousPrefix(S) == Cardinality({n \in S : \A i \in 1..n : i \in S})

\* how many messages of history carry (from, seq)
Occurrences(history, from, seq) ==
    Cardinality({i \in 1..Len(history) :
                    /\ history[i].from_process = from
                    /\ history[i].sequence_number = seq})

\* 1, 2, ..., n
UpTo(n) == [i \in 1..n |-> i]

\* C1: FIFO prefix property. For an observer and a sender other than the observer,
\* after any deliver calls in any arrival order the observer's history restricted
\* to the sender is exactly 1, 2, ..., k, with k the largest number such that every
\* one of 1..k was handed to deliver.
C1_FIFOPrefix ==
    system = "FIFOBroadcast" =>
        \A p \in DOMAIN process_states :
            \A s \in (DOMAIN process_states[p]) \ {p} :
                SequenceNumbersFrom(message_history[p], s)
                    = UpTo(ContiguousPrefix(passed[p][s]))

\* C1 witness: 3 and 2 arrived before 1, and the delivery of 1 released all three
C1_Witness ==
    /\ system = "FIFOBroadcast"
    /\ call.op = "deliver" /\ call.result = "ok"
    /\ call.arg.from_process = "P1" /\ call.arg.sequence_number = 1
    /\ passed["P2"]["P1"] = {1, 2, 3}
    /\ SequenceNumbersFrom(message_history["P2"], "P1") = <<1, 2, 3>>

\* C2: handing deliver a message whose (sender, sequence number) was handed to it
\* before, still pending or already released, never appends that sequence number
\* to the history a second time.
C2_RedeliveryIdempotent ==
    [][ (/\ call'.op = "deliver" /\ call'.result = "ok"
         /\ call'.arg.sequence_number \in passed[call'.self][call'.arg.from_process])
        => LET p == call'.self
               from == call'.arg.from_process
               seq == call'.arg.sequence_number
           IN  /\ Occurrences(message_history'[p], from, seq)
                     = Occurrences(message_history[p], from, seq)
               /\ Occurrences(message_history'[p], from, seq) <= 1 ]_vars

\* C2 witness: a message already released to the history was handed to deliver again
C2_Witness ==
    /\ system = "FIFOBroadcast"
    /\ call.op = "deliver" /\ call.result = "ok"
    /\ LET state == process_states[call.self][call.arg.from_process]
       IN  /\ call.arg.sequence_number < state.next_expected
           /\ call.arg.sequence_number \in DOMAIN state.pending_messages
    /\ Occurrences(message_history[call.self], call.arg.from_process,
                   call.arg.sequence_number) = 1

\* C3: when broadcast_message returns, the message it broadcast is in the history
\* of every process registered at the time of the call.
C3_BroadcastReachesAll ==
    (system = "DistributedSystemFIFO"
        /\ call.op = "broadcast_message" /\ call.result = "ok")
    => \A p \in Range(processes) : call.msg \in Range(message_history[p])

\* C4: the k-th broadcast of a process returns a message with sequence number k and
\* appends it to the sender's own history in the same call, so the sender's history
\* restricted to its own messages is 1, 2, ..., sequence_number at every moment.
C4_OwnBroadcasts ==
    system = "FIFOBroadcast" =>
        \A p \in DOMAIN process_states :
            LET n == process_states[p][p].sequence_number
            IN  /\ SequenceNumbersFrom(message_history[p], p) = UpTo(n)
                /\ (call.op = "broadcast" /\ call.self = p) =>
                      /\ call.msg = FIFOMessage(p, n, call.arg)
                      /\ message_history[p][Len(message_history[p])] = call.msg

\* C4 witness: the second broadcast of P2, made after a message of P1 was released
C4_Witness ==
    /\ system = "FIFOBroadcast"
    /\ call.op = "broadcast" /\ call.self = "P2"
    /\ call.msg.sequence_number = 2
    /\ SequenceNumbersFrom(message_history["P2"], "P1") = <<1>>

LamportSystems == {"LamportClock", "LamportClocks", "DistributedSystem"}

\* event i directly precedes event j: same process in program order, or i is the
\* send of the message that j receives
DirectlyBefore(i, j) ==
    /\ i < j
    /\ \/ events[i].process = events[j].process
       \/ /\ events[i].kind = "send"
          /\ events[j].kind = "receive"
          /\ events[j].message = events[i].message

\* happened-before: the transitive closure of DirectlyBefore
RECURSIVE HappenedBefore(_, _)
HappenedBefore(i, j) ==
    \/ DirectlyBefore(i, j)
    \/ \E k \in (i + 1)..(j - 1) : DirectlyBefore(i, k) /\ HappenedBefore(k, j)

\* C5: Lamport clock condition. If event a happened-before event b (program order,
\* a send before its receive, and the transitive closure), the timestamp of a is
\* strictly less than the timestamp of b.
C5_ClockCondition ==
    system \in LamportSystems =>
        \A i \in 1..Len(events) : \A j \in 1..Len(events) :
            HappenedBefore(i, j) => events[i].time < events[j].time

\* C5 witness: a send of P1 happened-before a receive of P3 only through P2
C5_Witness ==
    /\ system = "LamportClocks"
    /\ Len(events) = 4
    /\ events[1].process = "P1" /\ events[1].kind = "send"
    /\ events[4].process = "P3" /\ events[4].kind = "receive"
    /\ ~DirectlyBefore(1, 4)
    /\ HappenedBefore(1, 4)

\* C6: receive_message and update set the local timestamp to
\* max(old local timestamp, received timestamp) + 1, strictly greater than both.
C6_UpdateRule ==
    [][ (call'.op \in {"update", "receive_message"} /\ call'.result = "ok")
        => LET p == call'.self
               old == timestamp[p]
               received == IF call'.op = "update" THEN call'.arg
                           ELSE call'.arg.timestamp
               new == timestamp'[p]
           IN  /\ new = (IF old >= received THEN old ELSE received) + 1
               /\ new > old
               /\ new > received ]_vars

\* C6 witness: a clock at 0 received a message stamped 5 and is now at 6
C6_Witness ==
    /\ system = "LamportClock"
    /\ call.op = "receive_message" /\ call.result = "ok"
    /\ call.arg.timestamp = 5
    /\ Len(events) = 1
    /\ timestamp[call.self] = 6

\* C7: send_message increases the sender's timestamp by exactly 1, stamps the
\* returned message with the new value, appends it to the sender's history and
\* changes no other clock or history.
C7_SendMessage ==
    [][ (system \in LamportSystems /\ call'.op = "send_message" /\ call'.self # "system")
        => LET p == call'.self
           IN  /\ timestamp'[p] = timestamp[p] + 1
               /\ call'.msg = Message(p, call'.arg[1], timestamp[p] + 1, call'.arg[2])
               /\ message_history'[p] = Append(message_history[p], call'.msg)
               /\ \A q \in (DOMAIN timestamp) \ {p} :
                     /\ timestamp'[q] = timestamp[q]
                     /\ message_history'[q] = message_history[q] ]_vars

\* C7 witness: a process that had received a message sent one stamped 3
C7_Witness ==
    /\ system = "LamportClocks"
    /\ call.op = "send_message" /\ call.self = "P2"
    /\ call.msg.timestamp = 3
    /\ Len(message_history["P2"]) = 2

\* the (sender, recipient) pairs of the coordinator's send_message calls, in order
RoutedSends ==
    [i \in 1..(Len(events) \div 2) |->
        <<events[2 * i - 1].process, events[2 * i].process>>]

\* P1, P2, P3 registered and exactly P1 -> P2, P2 -> P3, P3 -> P1 routed
RingScenario ==
    /\ system = "DistributedSystem"
    /\ Range(processes) = {"P1", "P2", "P3"}
    /\ RoutedSends = << <<"P1", "P2">>, <<"P2", "P3">>, <<"P3", "P1">> >>

CountFrom(history, from) == Len(SelectFrom(history, from))

\* no Lamport timestamp decreases in the step
LamportMonotone ==
    \A p \in DOMAIN timestamp :
        /\ p \in DOMAIN timestamp'
        /\ timestamp[p] <= timestamp'[p]

\* no component of a vector timestamp decreases in the step, and no key is lost
VectorMonotone ==
    \A p \in DOMAIN vector_timestamp :
        /\ p \in DOMAIN vector_timestamp'
        /\ (DOMAIN vector_timestamp[p]) \subseteq (DOMAIN vector_timestamp'[p])
        /\ \A id \in ProcessIds :
              Get(vector_timestamp[p], id, 0) <= Get(vector_timestamp'[p], id, 0)

\* no next_expected decreases in the step, and it grows by the number of messages
\* of that sender released to the history (the history entries of the sender that
\* are not its own broadcasts)
NextExpectedMonotone ==
    \A p \in DOMAIN process_states :
        /\ p \in DOMAIN process_states'
        /\ \A s \in DOMAIN process_states[p] :
              LET old == process_states[p][s]
                  new == process_states'[p][s]
                  appended == CountFrom(message_history'[p], s)
                                  - CountFrom(message_history[p], s)
                  broadcast == IF s = p
                               THEN new.sequence_number - old.sequence_number
                               ELSE 0
              IN  /\ s \in DOMAIN process_states'[p]
                  /\ old.next_expected <= new.next_expected
                  /\ new.next_expected - old.next_expected = appended - broadcast

\* C9: monotonicity. Across every operation of the coordinators and processes no
\* Lamport timestamp decreases, no component of a vector timestamp decreases (also
\* when create_process registers a new id), no next_expected decreases, and
\* next_expected grows by exactly 1 for each message released to history.
C9_Monotonicity ==
    [][LamportMonotone /\ VectorMonotone /\ NextExpectedMonotone]_vars

\* C9 witness: create_process registered a third id after messages had been
\* exchanged, and the earlier clocks kept their non-zero components
C9_Witness ==
    /\ system = "DistributedSystemVC"
    /\ call.op = "create_process" /\ call.result = "ok"
    /\ Len(processes) = 3
    /\ \E p \in Range(processes) \ {call.arg} :
          \E q \in Range(processes) \ {call.arg, p} :
              /\ vector_timestamp[p][p] > 0
              /\ vector_timestamp[p][q] > 0
              /\ vector_timestamp[p][call.arg] = 0

\* C10: receive_message on P with a message m addressed to P merges and then
\* increments: every component other than P's is max(old, m's) with absent keys
\* read as 0 over the union of both key sets, P's own component is
\* max(old, m's) + 1, and m is appended to P's history.
C10_ReceiveMergesThenIncrements ==
    [][ (system = "VectorClock"
            /\ call'.op = "receive_message" /\ call'.result = "ok")
        => LET p == call'.self
               m == call'.arg
               old == vector_timestamp[p]
               new == vector_timestamp'[p]
               got == m.vector_timestamp
           IN  /\ DOMAIN new = (DOMAIN old) \cup (DOMAIN got)
               /\ \A id \in (DOMAIN new) \ {p} :
                     new[id] = (IF Get(old, id, 0) >= Get(got, id, 0)
                                THEN Get(old, id, 0) ELSE Get(got, id, 0))
               /\ new[p] = (IF Get(old, p, 0) >= Get(got, p, 0)
                            THEN Get(old, p, 0) ELSE Get(got, p, 0)) + 1
               /\ message_history'[p] = Append(message_history[p], m) ]_vars

\* C10 witness: a message with a key the clock did not have, a larger component
\* of the receiver's own id and a smaller one of another id was received
C10_Witness ==
    /\ system = "VectorClock"
    /\ call.op = "receive_message" /\ call.result = "ok"
    /\ Len(events) = 2
    /\ \E id \in DOMAIN call.arg.vector_timestamp :
          id \notin DOMAIN events[1].time
    /\ \E id \in (DOMAIN events[1].time) \ {call.self} :
          Get(call.arg.vector_timestamp, id, 0) < events[1].time[id]
    /\ events[1].time[call.self] = 1
    /\ Get(call.arg.vector_timestamp, call.self, 0) = 1
    /\ vector_timestamp[call.self][call.self] = 2

\* C11: vector-clock causality detection. Among clocks whose messages are each
\* received at most once by their addressee, two messages sent by distinct
\* processes carry vector timestamps that are concurrent_with exactly when
\* neither send happened-before the other.
C11_CausalityDetection ==
    system = "VectorClocks" =>
        \A i \in 1..Len(events) : \A j \in 1..Len(events) :
            ( /\ events[i].kind = "send" /\ events[j].kind = "send"
              /\ events[i].process # events[j].process )
            => ( ConcurrentWith(events[i].message.vector_timestamp,
                                events[j].message.vector_timestamp)
                 <=> (~HappenedBefore(i, j) /\ ~HappenedBefore(j, i)) )

\* C11 witness: P1 and P2 each sent to P3 without having observed the other, P3
\* received both, and the two timestamps are concurrent
C11_Witness ==
    /\ system = "VectorClocks"
    /\ Len(events) = 4
    /\ events[1].kind = "send" /\ events[1].process = "P1"
    /\ events[2].kind = "send" /\ events[2].process = "P2"
    /\ events[3].kind = "receive" /\ events[3].process = "P3"
    /\ events[4].kind = "receive" /\ events[4].process = "P3"
    /\ ConcurrentWith(events[1].message.vector_timestamp,
                      events[2].message.vector_timestamp)

\* C12: in DistributedSystemVC every process's own vector component equals the
\* number of send and receive events it has performed, the length of its
\* message_history, also when a process sends to itself.
C12_OwnComponentCountsEvents ==
    system = "DistributedSystemVC" =>
        \A p \in DOMAIN vector_timestamp :
            /\ p \in DOMAIN vector_timestamp[p]
            /\ vector_timestamp[p][p] = Len(message_history[p])

\* C12 witness: a process that had received a message sent a message to itself
C12_Witness ==
    /\ system = "DistributedSystemVC"
    /\ call.op = "send_message" /\ call.result = "ok"
    /\ call.arg[1] = call.arg[2]
    /\ Len(events) = 4
    /\ events[2].process = call.arg[1] /\ events[1].process # call.arg[1]
    /\ vector_timestamp[call.arg[1]][call.arg[1]] = 3

VectorSystems == {"VectorClock", "VectorClocks", "DistributedSystemVC"}

\* the send recorded last in the step is stamped with the sender's vector right
\* after the increment of that send
StampedAtSend ==
    (call'.op = "send_message" /\ call'.result = "ok")
    => LET e == events'[Len(events) + 1]
       IN  /\ e.kind = "send"
           /\ e.message = call'.msg
           /\ Timestamps(call'.msg.vector_timestamp, vector_timestamp') = e.time
           /\ e.time = [vector_timestamp[e.process] EXCEPT ![e.process] = @ + 1]

\* every message of every history reads the same timestamp after the step as before
StoredTimestampsKept ==
    \A p \in DOMAIN message_history :
        \A k \in 1..Len(message_history[p]) :
            /\ p \in DOMAIN message_history'
            /\ k <= Len(message_history'[p])
            /\ Timestamps(message_history'[p][k].vector_timestamp, vector_timestamp')
                  = Timestamps(message_history[p][k].vector_timestamp, vector_timestamp)

\* C13: a vector message carries an immutable snapshot. The timestamp of the
\* message returned by send_message equals the sender's vector right after the
\* send's increment, and no later operation (sends, receives, create_process)
\* changes the timestamp stored in that message in any process's history.
C13_ImmutableSnapshot ==
    [][ (system \in VectorSystems) => (StampedAtSend /\ StoredTimestampsKept) ]_vars

\* C13 witness: in the coordinator a message was sent, then a process was
\* created, then its sender sent again: the first message still carries the
\* vector of its send, which differs from the sender's current vector
C13_Witness ==
    /\ system = "DistributedSystemVC"
    /\ call.op = "send_message" /\ call.result = "ok"
    /\ Len(events) = 4
    /\ events[1].process = events[3].process
    /\ DOMAIN events[3].time # DOMAIN events[1].time
    /\ LET p == events[1].process
       IN  /\ message_history[p][1].vector_timestamp = events[1].time
           /\ message_history[p][1].vector_timestamp # vector_timestamp[p]

\* C14: dynamic membership in DistributedSystemVC. A successful
\* create_process(id) gives every previously registered process a component for
\* id equal to 0 and leaves their other components unchanged, and the new process
\* starts with a vector whose keys are exactly the registered ids, its own
\* included, each 0.
C14_DynamicMembership ==
    [][ ( /\ system = "DistributedSystemVC"
          /\ call'.op = "create_process" /\ call'.result = "ok" )
        => LET id == call'.arg
           IN  /\ id \notin Range(processes)
               /\ Range(processes') = Range(processes) \cup {id}
               /\ \A p \in Range(processes) :
                     /\ DOMAIN vector_timestamp'[p] = (DOMAIN vector_timestamp[p]) \cup {id}
                     /\ vector_timestamp'[p][id] = 0
                     /\ \A k \in DOMAIN vector_timestamp[p] :
                           vector_timestamp'[p][k] = vector_timestamp[p][k]
               /\ DOMAIN vector_timestamp'[id] = Range(processes')
               /\ \A k \in Range(processes') : vector_timestamp'[id][k] = 0 ]_vars

\* C14 witness: a third process was created after the two registered ones had
\* exchanged two messages
C14_Witness ==
    /\ system = "DistributedSystemVC"
    /\ call.op = "create_process" /\ call.result = "ok"
    /\ Len(processes) = 3
    /\ Len(events) = 4
    /\ \E p \in Range(processes) : \E q \in Range(processes) :
          /\ p # q /\ p # call.arg /\ q # call.arg
          /\ vector_timestamp[p][q] > 0 /\ vector_timestamp[q][p] > 0
          /\ vector_timestamp[p][call.arg] = 0
    /\ \A k \in Range(processes) : vector_timestamp[call.arg][k] = 0

\* C15: antisymmetry of the vector order. For all VectorTimestamp values a and
\* b, pairs with different key sets included, (a <= b and b <= a) holds if and
\* only if a == b.
C15_Antisymmetry ==
    system = "VectorTimestamp" =>
        LET a == vector_timestamp["a"]
            b == vector_timestamp["b"]
        IN  (VectorLe(a, b) /\ VectorLe(b, a)) <=> VectorEq(a, b)

Component(v, id) == IF id \in DOMAIN v THEN v[id] ELSE 0

C18_MergeIsLeastUpperBound ==
    [][ (system = "VectorTimestamp" /\ call'.op = "merge")
        => LET x == call'.self
               y == call'.arg
               a == vector_timestamp[x]
               b == vector_timestamp[y]
               result == vector_timestamp'[x]
           IN  /\ DOMAIN result = (DOMAIN a) \cup (DOMAIN b)
               /\ \A k \in DOMAIN result :
                     result[k] = (IF Component(a, k) >= Component(b, k)
                                  THEN Component(a, k) ELSE Component(b, k))
               /\ VectorLe(a, result) /\ VectorLe(b, result)
               /\ \A c \in VectorTimestamps :
                     (VectorLe(a, c) /\ VectorLe(b, c)) => VectorLe(result, c)
               /\ VectorEq(result, VectorMerge(b, a))
               /\ VectorEq(VectorMerge(a, a), a)
               /\ (x = y) => VectorEq(result, a)
               /\ (x # y) => vector_timestamp'[y] = b ]_vars

\* C18 witness: b = {P2: 1, P3: 0}, which lacks P1, was merged into a, and a is
\* now {P1: 1, P2: 1, P3: 1}
C18_Witness ==
    /\ system = "VectorTimestamp"
    /\ call.op = "merge" /\ call.self = "a" /\ call.arg = "b"
    /\ DOMAIN vector_timestamp["a"] = ProcessIds
    /\ DOMAIN vector_timestamp["b"] = {"P2", "P3"}
    /\ vector_timestamp["b"]["P2"] = 1 /\ vector_timestamp["b"]["P3"] = 0
    /\ vector_timestamp["a"] = [id \in ProcessIds |-> 1]

CoordinatorSystems == {"DistributedSystem", "DistributedSystemVC", "DistributedSystemFIFO"}

\* C19: in the three coordinators create_process with an id that is already
\* registered fails with an error and leaves the registry and every process's
\* state (timestamp or vector, sequence numbers, next_expected, pending buffers,
\* history) unchanged.
C19_DuplicateCreateFails ==
    [][ ( /\ system \in CoordinatorSystems
          /\ call'.op = "create_process"
          /\ call'.arg \in Range(processes) )
        => ( /\ call'.result = "ValueError"
             /\ UNCHANGED <<processes, timestamp, vector_timestamp, process_states,
                            known_processes, message_history>> ) ]_vars

\* C19 witness: the FIFO coordinator rejected create_process for a registered
\* process that holds a broadcast of its own and a pending message of another
C19_Witness ==
    /\ system = "DistributedSystemFIFO"
    /\ call.op = "create_process" /\ call.result = "ValueError"
    /\ call.arg \in Range(processes)
    /\ process_states[call.arg][call.arg].sequence_number = 1
    /\ \E s \in DOMAIN process_states[call.arg] :
          DOMAIN process_states[call.arg][s].pending_messages # {}

\* C20: routing to or from an unregistered process fails before any mutation.
\* send_message of the Lamport and vector coordinators with an unregistered
\* sender or recipient, and broadcast_message of the FIFO coordinator with an
\* unregistered sender, signal an error and change no timestamp, vector,
\* sequence number or history; a registered sender's clock is not advanced when
\* the recipient is unknown.
C20_UnknownProcessFailsFirst ==
    [][ ( /\ system \in CoordinatorSystems
          /\ \/ /\ call'.op = "send_message"
                /\ \/ call'.arg[1] \notin Range(processes)
                   \/ call'.arg[2] \notin Range(processes)
             \/ /\ call'.op = "broadcast_message"
                /\ call'.arg[1] \notin Range(processes) )
        => ( /\ call'.result = "ValueError"
             /\ UNCHANGED <<processes, timestamp, vector_timestamp, process_states,
                            known_processes, message_history, events>> ) ]_vars

\* C20 witness: the Lamport coordinator rejected a send from a registered
\* process, whose clock had advanced before, to an unregistered recipient
C20_Witness ==
    /\ system = "DistributedSystem"
    /\ call.op = "send_message" /\ call.result = "ValueError"
    /\ call.arg[1] \in Range(processes)
    /\ call.arg[2] \notin Range(processes)
    /\ timestamp[call.arg[1]] = 3
    /\ Len(message_history[call.arg[1]]) = 2

\* C21: receive_message of LamportClock and of VectorClock, given a message whose
\* to_process differs from the receiving process's id, fails with an error and
\* leaves the process's timestamp (or vector) and message_history unchanged.
C21_WrongAddressRejected ==
    [][ ( /\ system \in {"LamportClock", "VectorClock"}
          /\ call'.op = "receive_message"
          /\ call'.arg.to_process # call'.self )
        => ( /\ call'.result = "ValueError"
             /\ UNCHANGED <<timestamp, vector_timestamp, message_history>> ) ]_vars

\* C21 witness: a LamportClock that had received a message and advanced its
\* timestamp rejected a message addressed to another process
C21_Witness ==
    /\ system = "LamportClock"
    /\ call.op = "receive_message" /\ call.result = "ValueError"
    /\ call.arg.to_process # call.self
    /\ timestamp[call.self] > 1
    /\ Len(message_history[call.self]) = 1

\* C22: arrival-order independence of the reorder buffer. For an observer and a
\* sender other than the observer, once the messages 1..n have each been
\* delivered exactly once, in whatever order, the history restricted to the
\* sender is 1, 2, ..., n, next_expected for the sender is n + 1 and the sender's
\* pending buffer is empty.
C22_ArrivalOrderIndependent ==
    system = "FIFOBroadcastOnce" =>
        \A p \in DOMAIN process_states :
            \A s \in (DOMAIN process_states[p]) \ {p} :
                \A n \in 1..MaxSeq :
                    passed[p][s] = 1..n
                    => /\ SequenceNumbersFrom(message_history[p], s) = UpTo(n)
                       /\ process_states[p][s].next_expected = n + 1
                       /\ DOMAIN process_states[p][s].pending_messages = {}

\* C22 witness: P1's messages arrived in the order 2, 3, 1, each once, and all
\* three are in the history in order
C22_Witness ==
    /\ system = "FIFOBroadcastOnce"
    /\ call.op = "deliver" /\ call.result = "ok"
    /\ call.arg.from_process = "P1" /\ call.arg.sequence_number = 1
    /\ passed["P2"]["P1"] = {1, 2, 3}
    /\ passed["P2"]["P3"] = {}
    /\ SequenceNumbersFrom(message_history["P2"], "P1") = <<1, 2, 3>>
    /\ process_states["P2"]["P1"].next_expected = 4

\* a thread appends a message that the history already holds
ReleasesAgain(t) ==
    /\ frames[t].pc = "append"
    /\ frames'[t].pc = "advance"
    /\ Occurrences(message_history[Observer], frames[t].msg.from_process,
                   frames[t].msg.sequence_number) >= 1

\* C23: atomicity requirement of the release loop. When two deliver calls on one
\* observer for one sender interleave between the statements of deliver (insert,
\* test, pop, append, advance), a message can be released to the history twice;
\* a call that runs with no other call in progress, that is atomically, never
\* releases a message the history already holds.
C23_ReleaseLoopAtomic ==
    [][ (system = "FIFODeliverSteps")
        => \A t \in Threads : ReleasesAgain(t) => frames[t].overlapped ]_vars

\* C23 witness: two interleaved calls with message 1 of P1 have both returned,
\* message 1 is in the history twice and next_expected has skipped 2
C23_Witness ==
    /\ system = "FIFODeliverSteps"
    /\ \A t \in Threads : frames[t].pc = "idle"
    /\ Len(events) = 2
    /\ Occurrences(message_history[Observer], Sender, 1) = 2
    /\ process_states[Observer][Sender].next_expected = 3

\* C24: per-sender independence of FIFO delivery. deliver of a message from
\* sender S changes only the observer's next_expected and pending buffer for S
\* and appends only messages of S to the history; the state kept for every other
\* sender and the observer's own sequence_number are unchanged.  Hence, however
\* the deliveries of distinct senders interleave, the history restricted to a
\* sender is the one its own messages give: 1..k for the largest k with all of
\* 1..k of that sender handed over.
C24_PerSenderIndependence ==
    [][ (system = "FIFOBroadcastOnce" /\ call'.op = "deliver" /\ call'.result = "ok")
        => LET p == call'.self
               S == call'.arg.from_process
               old == message_history[p]
               new == message_history'[p]
           IN  /\ \A s \in (DOMAIN process_states[p]) \ {S} :
                     process_states'[p][s] = process_states[p][s]
               /\ process_states'[p][p].sequence_number
                     = process_states[p][p].sequence_number
               /\ process_states'[p][S].sequence_number
                     = process_states[p][S].sequence_number
               /\ Len(new) >= Len(old)
               /\ SubSeq(new, 1, Len(old)) = old
               /\ \A i \in (Len(old) + 1)..Len(new) : new[i].from_process = S
               /\ \A s \in (DOMAIN process_states[p]) \ {p} :
                     SequenceNumbersFrom(new, s)
                         = UpTo(ContiguousPrefix(passed'[p][s])) ]_vars

\* C24 witness: a message of P3 arrived between messages of P1 and released two
\* messages of P3 behind P1's first, while P1's third message waits in pending
C24_Witness ==
    /\ system = "FIFOBroadcastOnce"
    /\ call.op = "deliver" /\ call.result = "ok"
    /\ call.arg.from_process = "P3" /\ call.arg.sequence_number = 1
    /\ Len(message_history["P2"]) = 3
    /\ message_history["P2"][1] = FIFOMessage("P1", 1, "a")
    /\ message_history["P2"][2] = FIFOMessage("P3", 1, "a")
    /\ message_history["P2"][3] = FIFOMessage("P3", 2, "a")
    /\ DOMAIN process_states["P2"]["P1"].pending_messages = {3}
    /\ process_states["P2"]["P1"].next_expected = 2

\* C25: in DistributedSystemVC, after any create_process and send_message calls,
\* no process knows more about a process than that process itself: for all
\* registered P and Q, Q's vector component for P is at most P's own component
\* for P.
C25_NoOneKnowsMore ==
    system = "DistributedSystemVC" =>
        \A P \in Range(processes) : \A Q \in Range(processes) :
            /\ P \in DOMAIN vector_timestamp[Q]
            /\ vector_timestamp[Q][P] <= vector_timestamp[P][P]

\* C25 witness: P sent to Q and Q sent to R; R, which never received a message
\* of P, holds P's component through Q, level with P's own
C25_Witness ==
    /\ system = "DistributedSystemVC"
    /\ Len(processes) = 3
    /\ Len(events) = 4
    /\ \E P \in Range(processes) : \E Q \in Range(processes) : \E R \in Range(processes) :
          /\ P # Q /\ Q # R /\ P # R
          /\ \A i \in 1..Len(message_history[R]) :
                message_history[R][i].from_process # P
          /\ vector_timestamp[P][P] = 1
          /\ vector_timestamp[Q][P] = 1
          /\ vector_timestamp[R][P] = 1
          /\ vector_timestamp[P][Q] = 0
          /\ vector_timestamp[R][Q] = 2

\* C26: the pending buffer holds only undelivered future messages. After any
\* deliver calls on an observer (any order, repeats allowed), every sequence
\* number in a sender's pending buffer is strictly greater than that sender's
\* next_expected, so a message already released is never retained in pending.
C26_PendingOnlyFuture ==
    system = "FIFOBroadcast" =>
        \A p \in DOMAIN process_states :
            \A s \in DOMAIN process_states[p] :
                \A n \in DOMAIN process_states[p][s].pending_messages :
                    n > process_states[p][s].next_expected

\* C27: a process's message_history contains each of its own broadcasts exactly
\* once, after any broadcast and deliver calls on it, deliver calls that hand the
\* process its own broadcast included.
C27_OwnBroadcastsOnce ==
    system = "FIFOBroadcastSelf" =>
        \A p \in DOMAIN process_states :
            \A n \in 1..process_states[p][p].sequence_number :
                Occurrences(message_history[p], p, n) = 1

====
